---------------------------- MODULE Spec2Model ----------------------------
(***************************************************************************)
(* Model of soil_temp_lookup.py: the dataset cache (_get_dataset), the     *)
(* memoised geocoder (_geocode), the point lookup (get_soil_temperature)   *)
(* and the bounding-box lookup (get_soil_temperatures_in_bbox).            *)
(*                                                                         *)
(* Units.  Geographic coordinates are integers counting half pixels (the   *)
(* rasters have 1 pixel = 2 units), so that a bounding box can end in the  *)
(* middle of a pixel and the window rounding has something to round.       *)
(* Pixel values are integers counting hundredths of a degree Celsius       *)
(* (15.5 C = 1550, the sentinel -9999 = -999900), tagged "num", next to    *)
(* the one non-number the code tests for, NaN, tagged "nan".               *)
(***************************************************************************)
EXTENDS Integers, Sequences, FiniteSets, TLC

VARIABLES
    dataset_cache,      \* _get_dataset._cache: key (path) -> handle
    opened,             \* history: file -> number of times rasterio.open returned it
    Nominatim,          \* TRUE iff the geopy import succeeded (module line 33-38)
    GEOLOCATOR_CACHE,   \* _GEOLOCATOR_CACHE: {} or {"nominatim": client}
    clients_created,    \* history: number of Nominatim(...) instances constructed
    geocode_cache,      \* the lru_cache of _geocode, least recently used first
    last                \* history: the call just made, its arguments and outcome

vars == <<dataset_cache, opened, Nominatim, GEOLOCATOR_CACHE, clients_created,
          geocode_cache, last>>

---------------------------------------------------------------------------
(* Bounds of the model.                                                    *)

\* A raster without a CRS is re-opened by every call; the model stops counting here.
MaxOpens == 2

\* Stand-in for lru_cache(maxsize=2048): the capacity of the geocode cache.
maxsize == 2

---------------------------------------------------------------------------
(* Values.                                                                 *)

Num(n) == [k |-> "num", v |-> n]
NaN == [k |-> "nan", v |-> 0]
\* Python's None where a number may stand (ds.nodata, a lookup's result).
None == [k |-> "none", v |-> 0]

Abs(n) == IF n < 0 THEN -n ELSE n
Max(a, b) == IF a >= b THEN a ELSE b
Min(a, b) == IF a <= b THEN a ELSE b

---------------------------------------------------------------------------
(* The file system the process runs in.                                    *)

\* Path.home() and Path.cwd(), as component sequences below the root.
Home == <<"home">>
Cwd == <<"data">>

FileA == <<"/", "data", "a.tif">>
FileB == <<"/", "data", "b.tif">>
FileC == <<"/", "data", "c.tif">>
FileD == <<"/", "data", "d.tif">>

\* The rasters on disk.  Each is 2 x 2 pixels over [0,4] x [0,4] (as seen
\* in geographic coordinates); px[<<row, col>>] is the stored band-1 value.
\*   a.tif  EPSG:4326, nodata -9999; one nodata pixel, one stored NaN, one
\*          value within isclose's tolerance of the sentinel
\*   b.tif  EPSG:3857 (not geographic), nodata -9999; row 1 entirely nodata
\*   c.tif  no CRS
\*   d.tif  EPSG:4326, no nodata declared; every pixel a plain number
Rasters ==
    (FileA :> [crs |-> "EPSG:4326", nodata |-> Num(-999900),
               left |-> 0, bottom |-> 0, right |-> 4, top |-> 4,
               width |-> 2, height |-> 2, res |-> 2,
               px |-> (<<0, 0>> :> Num(-999900)) @@ (<<0, 1>> :> Num(1550)) @@
                      (<<1, 0>> :> NaN) @@ (<<1, 1>> :> Num(-999895))])
    @@
    (FileB :> [crs |-> "EPSG:3857", nodata |-> Num(-999900),
               left |-> 0, bottom |-> 0, right |-> 4, top |-> 4,
               width |-> 2, height |-> 2, res |-> 2,
               px |-> (<<0, 0>> :> Num(2000)) @@ (<<0, 1>> :> Num(0)) @@
                      (<<1, 0>> :> Num(-999900)) @@ (<<1, 1>> :> Num(-999900))])
    @@
    (FileC :> [crs |-> "none", nodata |-> None,
               left |-> 0, bottom |-> 0, right |-> 4, top |-> 4,
               width |-> 2, height |-> 2, res |-> 2,
               px |-> (<<0, 0>> :> Num(100)) @@ (<<0, 1>> :> Num(200)) @@
                      (<<1, 0>> :> Num(300)) @@ (<<1, 1>> :> Num(400))])
    @@
    (FileD :> [crs |-> "EPSG:4326", nodata |-> None,
               left |-> 0, bottom |-> 0, right |-> 4, top |-> 4,
               width |-> 2, height |-> 2, res |-> 2,
               px |-> (<<0, 0>> :> Num(1550)) @@ (<<0, 1>> :> Num(-250)) @@
                      (<<1, 0>> :> Num(10)) @@ (<<1, 1>> :> Num(2575))])

Files == DOMAIN Rasters

\* The path arguments callers pass: spellings of the four files, and one
\* spelling ("~/a.tif") of a file that does not exist.
PathArgs ==
    { <<"a.tif">>, <<".", "a.tif">>, <<"/", "data", "a.tif">>,
      <<"~", "..", "data", "a.tif">>, <<"..", "data", "a.tif">>,
      <<"b.tif">>, <<"/", "data", "b.tif">>,
      <<"c.tif">>, <<"d.tif">>, <<"~", "a.tif">> }

\* What each spelling means to a user (the shell's reading of "~", "." and
\* ".." with this Home and Cwd): the file it names.  Written out by hand,
\* independently of the normalisation below.
Denotes ==
    [p \in PathArgs |->
        CASE p \in { <<"a.tif">>, <<".", "a.tif">>, <<"/", "data", "a.tif">>,
                     <<"~", "..", "data", "a.tif">>, <<"..", "data", "a.tif">> }
               -> FileA
          [] p \in { <<"b.tif">>, <<"/", "data", "b.tif">> } -> FileB
          [] p = <<"c.tif">> -> FileC
          [] p = <<"d.tif">> -> FileD
          [] OTHER -> <<"/", "home", "a.tif">>]

---------------------------------------------------------------------------
(* pathlib: Path(path).expanduser().resolve(), and str().                  *)

expanduser(p) ==
    IF p # <<>> /\ Head(p) = "~" THEN <<"/">> \o Home \o Tail(p) ELSE p

absolute(p) ==
    IF p # <<>> /\ Head(p) = "/" THEN p ELSE <<"/">> \o Cwd \o p

RECURSIVE Collapse(_, _)
\* Drop "." and apply ".." (the parent of the root is the root).
Collapse(todo, acc) ==
    IF todo = <<>> THEN acc
    ELSE IF Head(todo) = "." THEN Collapse(Tail(todo), acc)
    ELSE IF Head(todo) = ".."
         THEN Collapse(Tail(todo),
                       IF acc = <<>> THEN acc ELSE SubSeq(acc, 1, Len(acc) - 1))
    ELSE Collapse(Tail(todo), Append(acc, Head(todo)))

resolve(p) == <<"/">> \o Collapse(Tail(absolute(p)), <<>>)

\* A forgotten normalisation: the argument itself is the key.
Normalize_raw(path) == path

\* Line 53: p = str(Path(path).expanduser().resolve())
Normalize(path) == resolve(expanduser(path))

\* The operating system's reading of the name handed to open(): relative
\* names are taken from the working directory, "~" is an ordinary name.
OsFile(p) == resolve(p)

---------------------------------------------------------------------------
(* Raster handles.                                                         *)

\* A handle is an object: two handles are the same instance iff they come
\* from the same open, identified by the file and the ordinal of the open.
NoHandle == [file |-> <<>>, n |-> 0, kind |-> "none", crs |-> "none"]

\* rasterio.open(p) on an existing file.
Open(p) ==
    [file |-> OsFile(p), n |-> opened[OsFile(p)] + 1,
     kind |-> "DatasetReader", crs |-> Rasters[OsFile(p)].crs]

\* The raw reader is cached whatever its CRS.
Wrap_never(base) == base

\* Lines 62-63: a reader whose EPSG code is not 4326 is wrapped.
Wrap(base) ==
    IF base.crs # "EPSG:4326"
    THEN [base EXCEPT !.kind = "WarpedVRT", !.crs = "EPSG:4326"]
    ELSE base

\* A lookup that never finds the entry.
cache_get_miss(key) == NoHandle

\* Lines 73-74: dict.get(key), None when absent.
cache_get(key) ==
    IF key \in DOMAIN dataset_cache THEN dataset_cache[key] ELSE NoHandle

\* Lines 77-78: _cache[key] = value
cache_set(key, value) ==
    [k \in (DOMAIN dataset_cache) \cup {key} |->
        IF k = key THEN value ELSE dataset_cache[k]]

\* The effect of one call without a change.
NoDatasetEffect(out) ==
    [out |-> out, ds |-> NoHandle, cache |-> dataset_cache,
     opened |-> opened, didOpen |-> FALSE]

\* Lines 51-65: _get_dataset(path), as the effect of one call: how it ends,
\* the handle returned, the cache and the open count it leaves.
get_dataset(path) ==
    LET p == Normalize(path)
        ds == cache_get(p)
    IN  IF ds # NoHandle
        THEN [NoDatasetEffect("return") EXCEPT !.ds = ds]
        ELSE IF OsFile(p) \notin Files
        THEN NoDatasetEffect("RasterioIOError")
        ELSE LET base == Open(p)
                 count == [opened EXCEPT ![OsFile(p)] = @ + 1]
             IN  IF base.crs = "none"
                 THEN [NoDatasetEffect("RuntimeError_no_CRS") EXCEPT
                          !.opened = count, !.didOpen = TRUE]
                 ELSE [out |-> "return", ds |-> Wrap(base),
                       cache |-> cache_set(p, Wrap(base)),
                       opened |-> count, didOpen |-> TRUE]

\* A call that would open a file once more than the model counts is not made.
WithinOpens(path) ==
    IF cache_get(Normalize(path)) # NoHandle \/ OsFile(Normalize(path)) \notin Files
    THEN TRUE
    ELSE opened[OsFile(Normalize(path))] < MaxOpens

---------------------------------------------------------------------------
(* The geocoder: _geocode under functools.lru_cache(maxsize).              *)

\* The addresses callers pass; "Paris" and "paris" differ in case only.
Addresses == {"Paris", "paris", "Nowhere", "Oslo"}

\* What one geocoding round trip can answer: a location (the service may
\* answer differently from one call to the next), None (no match), or a
\* failure of the network (geocode(..., timeout=5) raises).
Responses ==
    { [k |-> "loc", latlon |-> <<3, 1>>], [k |-> "loc", latlon |-> <<9, 9>>],
      [k |-> "None", latlon |-> <<0, 0>>], [k |-> "error", latlon |-> <<0, 0>>] }

\* A key that folds case: "Paris" and "paris" share an entry.
CacheKey_casefold(address) == IF address = "Paris" THEN "paris" ELSE address

\* Line 86: lru_cache keys an entry by the call's argument, the exact string.
CacheKey(address) == address

CachedKeys == {geocode_cache[i].key : i \in 1..Len(geocode_cache)}

IndexOf(key) == CHOOSE i \in 1..Len(geocode_cache) : geocode_cache[i].key = key

Without(seq, i) == SubSeq(seq, 1, i - 1) \o SubSeq(seq, i + 1, Len(seq))

\* lru_cache on a hit: the entry becomes the most recently used.
LruTouch(key) ==
    Append(Without(geocode_cache, IndexOf(key)), geocode_cache[IndexOf(key)])

\* lru_cache on a miss whose call returned: the result is stored, and when
\* the cache is full the least recently used entry makes room for it.
LruInsert(key, latlon) ==
    Append(IF Len(geocode_cache) >= maxsize THEN Tail(geocode_cache)
                                            ELSE geocode_cache,
           [key |-> key, latlon |-> latlon])

NoGeocodeEffect(out) ==
    [out |-> out, latlon |-> <<0, 0>>, hit |-> FALSE, contacted |-> FALSE,
     cache |-> geocode_cache, locator |-> GEOLOCATOR_CACHE,
     created |-> clients_created]

\* Lines 92-93: the shared client, constructed when the dict has none.
Geolocator ==
    IF "nominatim" \notin DOMAIN GEOLOCATOR_CACHE
    THEN ("nominatim" :> clients_created + 1)
    ELSE GEOLOCATOR_CACHE

\* Lines 86-98: _geocode(address), the service answering resp if asked.
geocode(address, resp) ==
    LET key == CacheKey(address)
    IN  IF key \in CachedKeys
        THEN [NoGeocodeEffect("return") EXCEPT
                 !.latlon = geocode_cache[IndexOf(key)].latlon,
                 !.hit = TRUE, !.cache = LruTouch(key)]
        ELSE IF ~Nominatim
        THEN NoGeocodeEffect("RuntimeError_geopy_required")
        ELSE LET locator == Geolocator
                 created == IF locator = GEOLOCATOR_CACHE THEN clients_created
                            ELSE clients_created + 1
                 asked == [NoGeocodeEffect("return") EXCEPT
                              !.contacted = TRUE, !.locator = locator,
                              !.created = created]
             IN  IF resp.k = "error"
                 THEN [asked EXCEPT !.out = "GeocoderError"]
                 ELSE IF resp.k = "None"
                 THEN [asked EXCEPT !.out = "ValueError_address_not_found"]
                 ELSE [asked EXCEPT !.latlon = resp.latlon,
                                    !.cache = LruInsert(key, resp.latlon)]

---------------------------------------------------------------------------
(* The point lookup: get_soil_temperature.                                 *)

\* The coordinate pairs callers pass, as <<lat, lon>>: the centres of the
\* four pixels, a point north-east of the raster and a point south of it.
Coords == { <<3, 1>>, <<3, 3>>, <<1, 1>>, <<1, 3>>, <<9, 9>>, <<-1, 1>> }

CoordInput(c) == [kind |-> "coord", addr |-> "", lat |-> c[1], lon |-> c[2]]
StrInput(a) == [kind |-> "str", addr |-> a, lat |-> 0, lon |-> 0]

\* The other arguments of the lookups: the addresses, the raster paths, and
\* what the geocoding service answers when a lookup asks it.
LookupAddresses == {"Paris", "Nowhere"}
LookupPaths == { <<"a.tif">>, <<"~", "..", "data", "a.tif">>, <<"c.tif">>, <<"d.tif">> }
LookupResponses == {r \in Responses : r.latlon # <<9, 9>>}
NoResponse == [k |-> "None", latlon |-> <<0, 0>>]

\* numpy.isnan
isnan(x) == x.k = "nan"

\* numpy.isclose(a, b) with its defaults rtol = 1e-5, atol = 1e-8 and
\* equal_nan = False: |a - b| <= atol + rtol * |b|.  In hundredths,
\* d <= 1e-6 + 1e-5 * |b|, that is 1e6 * d <= 1 + 10 * |b| for an integer d.
isclose(a, b) ==
    /\ ~isnan(a)
    /\ ~isnan(b)
    /\ Abs(a.v - b.v) <= (1 + 10 * Abs(b.v)) \div 1000000

\* float(value)
float(x) == IF isnan(x) THEN [k |-> "float_nan", v |-> 0] ELSE [k |-> "float", v |-> x.v]

\* The raster behind a handle, as the handle shows it.
RasterOf(ds) == Rasters[ds.file]

\* What rasterio's sampler yields for a point off the grid: an array filled
\* with (dataset.nodata or 0).
SampleFill(ds) ==
    IF RasterOf(ds).nodata = None THEN Num(0) ELSE RasterOf(ds).nodata

\* Lines 135-137: next(ds.sample([(lon, lat)]))[0], band 1 at the pixel
\* holding the point (row and column by floor through the inverse transform).
Sample(ds, lon, lat) ==
    LET R == RasterOf(ds)
        col == (lon - R.left) \div R.res
        row == (R.top - lat) \div R.res
    IN  IF row < 0 \/ col < 0 \/ row >= R.height \/ col >= R.width
        THEN SampleFill(ds)
        ELSE R.px[<<row, col>>]

\* The sentinel test made exact, and the NaN test dropped.
NodataPolicy_exact(value, nodata) ==
    IF nodata # None /\ value = nodata THEN None ELSE float(value)

\* Lines 141-146: the nodata policy of the point lookup.
NodataPolicy(value, nodata) ==
    IF nodata # None /\ isclose(value, nodata) THEN None
    ELSE IF isnan(value) THEN None
    ELSE float(value)

\* Every input is handed to the geocoder's client set-up.
ResolveInput_eager(input, resp) ==
    IF input.kind = "str"
    THEN geocode(input.addr, resp)
    ELSE [NoGeocodeEffect("return") EXCEPT
            !.latlon = <<input.lat, input.lon>>,
            !.locator = IF Nominatim THEN Geolocator ELSE GEOLOCATOR_CACHE,
            !.created = IF Nominatim /\ Geolocator # GEOLOCATOR_CACHE
                        THEN clients_created + 1 ELSE clients_created]

\* Lines 127-130: a string is geocoded, a coordinate pair is used as it is.
ResolveInput(input, resp) ==
    IF input.kind = "str"
    THEN geocode(input.addr, resp)
    ELSE [NoGeocodeEffect("return") EXCEPT !.latlon = <<input.lat, input.lon>>]

---------------------------------------------------------------------------
(* The bounding-box lookup: get_soil_temperatures_in_bbox.                  *)

\* The boxes callers pass, <<south, west, north, east>>: outside the raster
\* on each side, touching an edge, across an edge, inside, ending in the
\* middle of a pixel, and of no width or no height.
LatSpans == { <<-1, -1>>, <<0, 4>>, <<2, 4>>, <<2, 2>>, <<4, 5>>, <<5, 5>> }
LonSpans == { <<-1, -1>>, <<-1, 1>>, <<0, 1>>, <<0, 4>>, <<1, 1>>, <<4, 5>>, <<5, 5>> }
BBoxes == { <<lat[1], lon[1], lat[2], lon[2]>> : lat \in LatSpans, lon \in LonSpans }
BBoxPaths == { <<"a.tif">>, <<"d.tif">> }

\* A test that forgets the box lying north of the raster.
FastReject_no_north(bbox, R) ==
    bbox[4] < R.left \/ bbox[2] > R.right \/ bbox[3] < R.bottom

\* Lines 186-187, bbox = <<south, west, north, east>>.
FastReject(bbox, R) ==
    \/ bbox[4] < R.left
    \/ bbox[2] > R.right
    \/ bbox[3] < R.bottom
    \/ bbox[1] > R.top

\* rasterio.windows.from_bounds(west, south, east, north, transform) for a
\* north-up transform: offsets and lengths in pixels, here as numerators
\* over the pixel size R.res (a window may begin in the middle of a pixel).
from_bounds(west, south, east, north, R) ==
    [col_off |-> west - R.left, row_off |-> R.top - north,
     width |-> east - west, height |-> north - south]

\* Window.round_offsets(): down to a whole pixel.
round_offsets(w, R) ==
    [w EXCEPT !.col_off = @ \div R.res, !.row_off = @ \div R.res]

\* Window.round_lengths(): up to a whole pixel (for lengths that are
\* multiples of half a pixel, rounding half up gives the same).
round_lengths(w, R) ==
    [w EXCEPT !.width = -((-@) \div R.res), !.height = -((-@) \div R.res)]

\* Line 199: Window(0, 0, ds.width, ds.height)
full_window(R) == [col_off |-> 0, row_off |-> 0, width |-> R.width, height |-> R.height]

\* rasterio.windows.intersect: the row ranges and the column ranges overlap.
intersect(a, b) ==
    /\ ~(a.row_off >= b.row_off + b.height \/ a.row_off + a.height <= b.row_off)
    /\ ~(a.col_off >= b.col_off + b.width \/ a.col_off + a.width <= b.col_off)

\* rasterio.windows.intersection of two windows that intersect.
intersection(a, b) ==
    [col_off |-> Max(a.col_off, b.col_off),
     row_off |-> Max(a.row_off, b.row_off),
     width |-> Min(a.col_off + a.width, b.col_off + b.width) - Max(a.col_off, b.col_off),
     height |-> Min(a.row_off + a.height, b.row_off + b.height) - Max(a.row_off, b.row_off)]

Positions(w) == (0..(w.height - 1)) \X (0..(w.width - 1))

\* Line 205: ds.read(1, window=window, masked=True), the values ...
ReadData(R, w) ==
    [pos \in Positions(w) |-> R.px[<<w.row_off + pos[1], w.col_off + pos[2]>>]]

\* ... and the mask: the pixels holding the declared nodata value.
ReadMask(R, w) ==
    [pos \in Positions(w) |->
        R.nodata # None /\ R.px[<<w.row_off + pos[1], w.col_off + pos[2]>>] = R.nodata]

\* A shortcut taken as soon as one pixel is nodata.
AllMasked_any(mask) == \E pos \in DOMAIN mask : mask[pos]

\* Line 208: data.mask.all()
AllMasked(mask) == \A pos \in DOMAIN mask : mask[pos]

\* Line 215: data.filled(np.nan).astype(float)
Filled(data, mask) ==
    [pos \in DOMAIN data |-> IF mask[pos] THEN float(NaN) ELSE float(data[pos])]

\* Line 212: the masked array is returned as read; its entries as floats.
AsRead(data) == [pos \in DOMAIN data |-> float(data[pos])]

---------------------------------------------------------------------------
(* The record of the last call.                                            *)

NoInput == [kind |-> "none", addr |-> "", lat |-> 0, lon |-> 0]
NoWindow == [col_off |-> 0, row_off |-> 0, width |-> 0, height |-> 0]

NoCall ==
    [op |-> "none", path |-> <<>>, input |-> NoInput,
     bbox |-> <<0, 0, 0, 0>>, masked |-> FALSE,
     out |-> "none", ds |-> NoHandle, didOpen |-> FALSE,
     hit |-> FALSE, contacted |-> FALSE, latlon |-> <<0, 0>>,
     sampled |-> None, value |-> None,
     ret |-> "none", rejected |-> FALSE, didRead |-> FALSE,
     requested |-> NoWindow, window |-> NoWindow, array |-> <<>>, mask |-> <<>>, readMask |-> <<>>]

---------------------------------------------------------------------------
(* Actions.                                                                *)

Init ==
    /\ dataset_cache = <<>>
    /\ opened = [f \in Files |-> 0]
    /\ Nominatim \in BOOLEAN
    /\ GEOLOCATOR_CACHE = <<>>
    /\ clients_created = 0
    /\ geocode_cache = <<>>
    /\ last = NoCall

\* A direct call of _get_dataset(path).
GetDataset(path) ==
    /\ WithinOpens(path)
    /\ LET e == get_dataset(path)
       IN  /\ dataset_cache' = e.cache
           /\ opened' = e.opened
           /\ last' = [NoCall EXCEPT !.op = "get_dataset", !.path = path,
                          !.out = e.out, !.ds = e.ds, !.didOpen = e.didOpen,
                          !.ret = IF e.out = "return" THEN "handle" ELSE "none"]
    /\ UNCHANGED <<Nominatim, GEOLOCATOR_CACHE, clients_created, geocode_cache>>

\* A direct call of _geocode(address); the service answers resp if asked.
Geocode(address, resp) ==
    /\ LET g == geocode(address, resp)
       IN  /\ geocode_cache' = g.cache
           /\ GEOLOCATOR_CACHE' = g.locator
           /\ clients_created' = g.created
           /\ last' = [NoCall EXCEPT !.op = "geocode",
                          !.input = StrInput(address), !.out = g.out,
                          !.hit = g.hit, !.contacted = g.contacted,
                          !.latlon = g.latlon,
                          !.ret = IF g.out = "return" THEN "latlon" ELSE "none"]
    /\ UNCHANGED <<dataset_cache, opened, Nominatim>>

\* Lines 105-146: get_soil_temperature(address_or_coord, tif_path=path).
GetSoilTemperature(input, path, resp) ==
    LET g == ResolveInput(input, resp)
        call == [NoCall EXCEPT !.op = "point", !.input = input, !.path = path,
                    !.out = g.out, !.hit = g.hit, !.contacted = g.contacted,
                    !.latlon = g.latlon]
    IN  /\ geocode_cache' = g.cache
        /\ GEOLOCATOR_CACHE' = g.locator
        /\ clients_created' = g.created
        /\ UNCHANGED Nominatim
        /\ IF g.out # "return"
           THEN /\ last' = call
                /\ UNCHANGED <<dataset_cache, opened>>
           ELSE /\ WithinOpens(path)
                /\ LET d == get_dataset(path)
                       value == Sample(d.ds, g.latlon[2], g.latlon[1])
                       result == NodataPolicy(value, RasterOf(d.ds).nodata)
                   IN  /\ dataset_cache' = d.cache
                       /\ opened' = d.opened
                       /\ last' =
                            IF d.out # "return"
                            THEN [call EXCEPT !.out = d.out, !.didOpen = d.didOpen]
                            ELSE [call EXCEPT !.ds = d.ds, !.didOpen = d.didOpen,
                                     !.sampled = value, !.value = result,
                                     !.ret = IF result = None THEN "None" ELSE "float"]

\* Lines 151-216: get_soil_temperatures_in_bbox(bbox, tif_path=path, masked=masked).
GetSoilTemperaturesInBBox(bbox, path, masked) ==
    /\ WithinOpens(path)
    /\ LET d == get_dataset(path)
           R == RasterOf(d.ds)
           call == [NoCall EXCEPT !.op = "bbox", !.bbox = bbox, !.path = path,
                       !.masked = masked, !.out = d.out, !.ds = d.ds,
                       !.didOpen = d.didOpen]
           req == round_lengths(
                      round_offsets(
                          from_bounds(bbox[2], bbox[1], bbox[4], bbox[3], R), R), R)
           window == intersection(req, full_window(R))
           data == ReadData(R, window)
           mask == ReadMask(R, window)
       IN  /\ dataset_cache' = d.cache
           /\ opened' = d.opened
           /\ last' =
                IF d.out # "return" THEN call
                ELSE IF FastReject(bbox, R)
                THEN [call EXCEPT !.ret = "None", !.rejected = TRUE]
                ELSE IF ~intersect(req, full_window(R))
                THEN [call EXCEPT !.out = "WindowError", !.requested = req]
                ELSE IF window.width <= 0 \/ window.height <= 0
                THEN [call EXCEPT !.ret = "None", !.requested = req,
                                  !.window = window]
                ELSE IF AllMasked(mask)
                THEN [call EXCEPT !.ret = "None", !.requested = req,
                                  !.window = window, !.didRead = TRUE,
                                  !.readMask = mask]
                ELSE IF masked
                THEN [call EXCEPT !.ret = "MaskedArray", !.requested = req,
                                  !.window = window, !.didRead = TRUE,
                                  !.readMask = mask, !.array = AsRead(data),
                                  !.mask = mask]
                ELSE [call EXCEPT !.ret = "ndarray", !.requested = req,
                                  !.window = window, !.didRead = TRUE,
                                  !.readMask = mask, !.array = Filled(data, mask)]
    /\ UNCHANGED <<Nominatim, GEOLOCATOR_CACHE, clients_created, geocode_cache>>

NextDataset == \E path \in PathArgs : GetDataset(path)

SpecDataset == Init /\ [][NextDataset]_vars

NextGeocode == \E address \in Addresses, resp \in Responses : Geocode(address, resp)

SpecGeocode == Init /\ [][NextGeocode]_vars

NextLookup ==
    \/ \E c \in Coords, path \in LookupPaths :
          GetSoilTemperature(CoordInput(c), path, NoResponse)
    \/ \E a \in LookupAddresses, path \in LookupPaths, resp \in LookupResponses :
          GetSoilTemperature(StrInput(a), path, resp)

SpecLookup == Init /\ [][NextLookup]_vars

NextBBox ==
    \E bbox \in BBoxes, path \in BBoxPaths, masked \in BOOLEAN :
        GetSoilTemperaturesInBBox(bbox, path, masked)

SpecBBox == Init /\ [][NextBBox]_vars

\* The whole program: every entry point, in any order.
Next ==
    \/ NextDataset
    \/ NextGeocode
    \/ NextLookup
    \/ NextBBox

Spec == Init /\ [][Next]_vars

---------------------------------------------------------------------------
(* Properties.                                                             *)

GeocodeFailures ==
    {"RuntimeError_geopy_required", "ValueError_address_not_found", "GeocoderError"}

Acquired == last.ds # NoHandle

SameCall ==
    /\ last.op = "point"
    /\ last'.op = "point"
    /\ last.input.kind = "coord"
    /\ last'.input = last.input
    /\ last'.path = last.path

SameResult ==
    /\ last'.out = last.out
    /\ last'.ret = last.ret
    /\ last'.value = last.value

\* C2 as stated: two calls of get_soil_temperature, one after the other,
\* with the same coordinates and path give the same result, and at most
\* one of the two opens the raster.
C2_AtMostOneOpen ==
    [][SameCall => (SameResult /\ ~(last.didOpen /\ last'.didOpen))]_vars

\* C2 amended: the two calls end the same way (the same value, None, or the
\* same exception); when the first returns, the second opens nothing and
\* samples the same handle; when the raster has no CRS, the second call
\* opens it again.
C2_Idempotent ==
    [][SameCall =>
          /\ SameResult
          /\ last.out = "return" => (~last'.didOpen /\ last'.ds = last.ds)
          /\ last.out = "RuntimeError_no_CRS" => last'.didOpen]_vars

\* C2's case: a point lookup answered from a handle that was already cached.
C2_Witness ==
    /\ last.op = "point"
    /\ last.input.kind = "coord"
    /\ last.ret = "float"
    /\ ~last.didOpen
    /\ opened[last.ds.file] = 1

\* C3: every cached handle is in EPSG:4326, a raster in another CRS is
\* cached as its WarpedVRT, a raster without a CRS is never cached, and the
\* call that meets one raises and leaves the cache as it was.
C3_CachedHandlesGeographic ==
    /\ [](/\ \A k \in DOMAIN dataset_cache :
               /\ dataset_cache[k].crs = "EPSG:4326"
               /\ Rasters[dataset_cache[k].file].crs # "none"
               /\ Rasters[dataset_cache[k].file].crs # "EPSG:4326"
                    => dataset_cache[k].kind = "WarpedVRT"
          /\ (last.op = "get_dataset" /\ Denotes[last.path] \in Files) =>
               (Rasters[Denotes[last.path]].crs = "none"
                   <=> last.out = "RuntimeError_no_CRS"))
    /\ [][last'.out = "RuntimeError_no_CRS" =>
             (dataset_cache' = dataset_cache /\ last'.ds = NoHandle)]_vars

\* C3's case: b.tif (EPSG:3857) is cached, and c.tif (no CRS) was just refused.
C3_Witness ==
    /\ last.out = "RuntimeError_no_CRS"
    /\ \E k \in DOMAIN dataset_cache : dataset_cache[k].kind = "WarpedVRT"

StrictlyOutside(latlon, R) ==
    \/ latlon[2] < R.left
    \/ latlon[2] > R.right
    \/ latlon[1] < R.bottom
    \/ latlon[1] > R.top

\* C4: a point lookup at coordinates outside the raster's bounds returns None.
C4_OutsideReturnsNone ==
    (last.op = "point" /\ Acquired /\ StrictlyOutside(last.latlon, RasterOf(last.ds)))
        => (last.out = "return" /\ last.ret = "None")

\* C5: the point lookup returns None when the raster declares a sentinel
\* and the sampled value is close to it (in particular equal to it), None
\* when the sampled value is NaN, and the value as a float otherwise; with
\* no sentinel declared, None exactly for NaN.  The sampled value of a
\* point on the grid is the stored pixel.
C5_NodataPolicy ==
    (last.op = "point" /\ Acquired) =>
        LET R == RasterOf(last.ds)
            v == last.sampled
            col == (last.latlon[2] - R.left) \div R.res
            row == (R.top - last.latlon[1]) \div R.res
        IN  /\ last.out = "return"
            /\ <<row, col>> \in DOMAIN R.px => v = R.px[<<row, col>>]
            /\ (R.nodata # None /\ v = R.nodata) => last.value = None
            /\ (R.nodata # None /\ isclose(v, R.nodata)) => last.value = None
            /\ isnan(v) => last.value = None
            /\ ~isnan(v) /\ ~(R.nodata # None /\ isclose(v, R.nodata))
                 => last.value = [k |-> "float", v |-> v.v]
            /\ R.nodata = None => (last.value = None <=> isnan(v))
            /\ last.ret = (IF last.value = None THEN "None" ELSE "float")

\* C5's case: a pixel within the tolerance of the sentinel, not equal to it.
C5_Witness ==
    /\ last.op = "point"
    /\ last.sampled = Num(-999895)
    /\ last.value = None

OutsideBounds(bbox, R) ==
    \/ bbox[4] < R.left
    \/ bbox[2] > R.right
    \/ bbox[3] < R.bottom
    \/ bbox[1] > R.top

\* C6: a box entirely outside the raster's bounds returns None, with no
\* window computed and nothing read.
C6_FastReject ==
    (last.op = "bbox" /\ Acquired /\ OutsideBounds(last.bbox, RasterOf(last.ds))) =>
        /\ last.out = "return"
        /\ last.ret = "None"
        /\ last.rejected
        /\ ~last.didRead
        /\ last.requested = NoWindow
        /\ last.window = NoWindow

\* C6's case: a box north of the raster was rejected.
C6_Witness ==
    /\ last.op = "bbox"
    /\ Acquired
    /\ last.bbox[1] > RasterOf(last.ds).top
    /\ last.ret = "None"

\* The overlap of window w with the raster's full window, computed on its own.
Clip(w, R) ==
    [col_off |-> Max(w.col_off, 0), row_off |-> Max(w.row_off, 0),
     width |-> Min(w.col_off + w.width, R.width) - Max(w.col_off, 0),
     height |-> Min(w.row_off + w.height, R.height) - Max(w.row_off, 0)]

\* C7: a box that passes the fast reject never makes the call raise; the
\* window read is the overlap of the rounded requested window with the
\* raster, no larger than the raster; when the overlap has no width or no
\* height the call returns None and reads nothing.
C7_WindowClipped ==
    (last.op = "bbox" /\ Acquired /\ ~OutsideBounds(last.bbox, RasterOf(last.ds))) =>
        LET R == RasterOf(last.ds)
            req == round_lengths(round_offsets(
                       from_bounds(last.bbox[2], last.bbox[1],
                                   last.bbox[4], last.bbox[3], R), R), R)
            clip == Clip(req, R)
        IN  /\ last.out = "return"
            /\ (clip.width <= 0 \/ clip.height <= 0)
                 => (last.ret = "None" /\ ~last.didRead)
            /\ (clip.width > 0 /\ clip.height > 0)
                 => /\ last.didRead
                    /\ last.window = clip
                    /\ last.window.width <= R.width
                    /\ last.window.height <= R.height

StoredAt(pos) ==
    RasterOf(last.ds).px[<<last.window.row_off + pos[1], last.window.col_off + pos[2]>>]

MaskedAt(pos) ==
    RasterOf(last.ds).nodata # None /\ StoredAt(pos) = RasterOf(last.ds).nodata

IsNaNEntry(x) == x.k = "float_nan"

\* What C8 says of every read, whatever it says of the NaN entries: None
\* exactly when every pixel read is masked, else an array of the window's
\* shape, the masked array as read when masked = True.
C8_Common ==
    /\ DOMAIN last.readMask = Positions(last.window)
    /\ \A pos \in Positions(last.window) : last.readMask[pos] <=> MaskedAt(pos)
    /\ last.ret = "None" <=> \A pos \in Positions(last.window) : MaskedAt(pos)
    /\ last.ret # "None" =>
          /\ last.ret = (IF last.masked THEN "MaskedArray" ELSE "ndarray")
          /\ DOMAIN last.array = Positions(last.window)
    /\ last.ret = "MaskedArray" =>
          /\ last.mask = last.readMask
          /\ \A pos \in Positions(last.window) : last.array[pos] = float(StoredAt(pos))

C9_CoordinatesSkipGeocoder ==
    /\ []((last.op = "point" /\ last.input.kind = "coord") =>
             /\ last.out \notin GeocodeFailures
             /\ Rasters[Denotes[last.path]].crs # "none" => last.out = "return")
    /\ [][last'.op = "point" =>
             /\ last'.input.kind = "coord" =>
                   /\ geocode_cache' = geocode_cache
                   /\ GEOLOCATOR_CACHE' = GEOLOCATOR_CACHE
                   /\ clients_created' = clients_created
                   /\ ~last'.contacted
                   /\ ~last'.hit
                   /\ last'.latlon = <<last'.input.lat, last'.input.lon>>
             /\ (last'.input.kind = "str" /\ last'.input.addr \notin CachedKeys) =>
                   /\ ~Nominatim => last'.out = "RuntimeError_geopy_required"
                   /\ Nominatim => last'.contacted
             /\ last'.out \in GeocodeFailures =>
                   /\ last'.input.kind = "str"
                   /\ dataset_cache' = dataset_cache
                   /\ opened' = opened
                   /\ last'.ds = NoHandle
                   /\ ~last'.didOpen]_vars

\* C9's case: a coordinate lookup returned a temperature in a process without geopy.
C9_Witness ==
    /\ ~Nominatim
    /\ last.op = "point"
    /\ last.input.kind = "coord"
    /\ last.ret = "float"

LatLonOf(cache, key) ==
    cache[CHOOSE i \in 1..Len(cache) : cache[i].key = key].latlon

KeysOf(cache) == {cache[i].key : i \in 1..Len(cache)}

\* C10: _geocode is memoised by the exact address: a call hits exactly when
\* its address, as written, is cached, and then returns the stored pair
\* without asking the service; a miss that returns is stored as the most
\* recent entry, the least recent one leaving a full cache; a failed call
\* stores nothing and the next call with that address runs again; one
\* client at most is constructed, by the first call that asks the service.
C10_GeocodeMemoised ==
    /\ [](/\ Len(geocode_cache) <= maxsize
          /\ Cardinality(KeysOf(geocode_cache)) = Len(geocode_cache)
          /\ clients_created <= 1
          /\ clients_created = 0 <=> GEOLOCATOR_CACHE = <<>>
          /\ clients_created = 1 => GEOLOCATOR_CACHE = ("nominatim" :> 1))
    /\ [][last'.op = "geocode" =>
             LET a == last'.input.addr
                 keys == KeysOf(geocode_cache)
             IN  /\ last'.hit <=> a \in keys
                 /\ last'.hit =>
                       /\ last'.out = "return"
                       /\ last'.latlon = LatLonOf(geocode_cache, a)
                       /\ ~last'.contacted
                       /\ KeysOf(geocode_cache') = keys
                 /\ (~last'.hit /\ last'.out = "return") =>
                       /\ last'.contacted
                       /\ KeysOf(geocode_cache') =
                             (IF Len(geocode_cache) = maxsize
                              THEN keys \ {geocode_cache[1].key} ELSE keys) \cup {a}
                 /\ last'.out = "return" =>
                       /\ geocode_cache'[Len(geocode_cache')].key = a
                       /\ LatLonOf(geocode_cache', a) = last'.latlon
                 /\ last'.out # "return" =>
                       /\ last'.out \in GeocodeFailures
                       /\ geocode_cache' = geocode_cache
                       /\ a \notin KeysOf(geocode_cache')
                 /\ (last.op = "geocode" /\ last.out # "return" /\ last.input.addr = a) =>
                       /\ ~last'.hit
                       /\ Nominatim => last'.contacted
                 /\ last'.contacted <=> (~last'.hit /\ Nominatim)
                 /\ clients_created' =
                       (IF last'.contacted /\ GEOLOCATOR_CACHE = <<>>
                        THEN clients_created + 1 ELSE clients_created)
                 /\ ~last'.contacted => GEOLOCATOR_CACHE' = GEOLOCATOR_CACHE]_vars

\* C10's case: a hit in a full cache, the client constructed once.
C10_Witness ==
    /\ last.op = "geocode"
    /\ last.hit
    /\ Len(geocode_cache) = maxsize
    /\ clients_created = 1

=============================================================================
